---- MODULE Spec2Model ----
(***************************************************************************)
(* The scan engine of lib/core/fuzzer.py (class Fuzzer): the worker pool,  *)
(* the play gate (playEvent), the rendezvous semaphore (pausedSemaphore),  *)
(* the rate counter with its one-shot decrement timers, and the caller's   *)
(* control operations start / pause / resume / stop / finishThreads /      *)
(* wait.                                                                   *)
(*                                                                         *)
(* Every thread of the program is a process of the model: the workers      *)
(* (thread_proc), the Timer threads (reduceRate) and the caller.  A        *)
(* statement that reads or writes a shared attribute is one step; the      *)
(* unsynchronised read-modify-write statements (rate += 1, rate -= 1,      *)
(* stopped += 1, runningThreadsCount -= 1) are a load step and a store     *)
(* step, because the code takes no lock around them.                       *)
(***************************************************************************)
EXTENDS Integers, Sequences, FiniteSets, Bags, TLC

\* ------------------------------------------------------------------ bounds
MaxThreads == 2      \* largest requested thread count
MaxPaths == 2        \* largest dictionary
MaxRate == 1         \* largest request-rate cap (0 = no cap)
MaxPauses == 2       \* pause() calls the caller makes on one engine
MaxWaits == 1        \* wait() calls the caller makes on one engine
MaxStarts == 2       \* start() calls the caller makes on one engine
MaxLen == 3          \* longest path string handed to scan()

\* the dictionary of the run that only tests the rate cap: one more candidate
MaxDict == MaxPaths + 1

Workers == 1..MaxThreads
Paths == 1..MaxDict

\* Python's None, for a timeout and for a Result's status.
None == -1
\* response.status as the prober returns it: an HTTP status code, and the
\* two empty ones, None and 0 (falsy without being None).
Statuses == {None, 0, 200}
\* wait(timeout): None (the default), 0, and a positive timeout.
Timeouts == {None, 0, 1}
\* The classifier instances getScannerFor can yield for a path: the default
\* scanner and a scoped (prefix / suffix / calibration) one.
Testers == {"default", "scoped"}

\* A string is the sequence of its characters; these are the characters
\* getScannerFor and setupScanners tell apart, and a letter.
Chars == {"a", ".", "/", "?", "#"}
\* An optional string (excludeContent, calibration): <<>> is Python's None,
\* <<s>> holds the string s.
NoString == <<>>

VARIABLES
    \* constructor arguments and what __init__ derives from them
    threadsArg,           \* threads
    dictLen,              \* len(self.dictionary)
    maxrate,              \* self.maxrate
    threadsCount,         \* self.threadsCount
    prefixes,             \* self.prefixes (list of strings)
    suffixes,             \* self.suffixes (list of strings)
    extensions,           \* self.dictionary.extensions (list of strings)
    excludeContent,       \* self.excludeContent (optional string)
    \* the classifier registry
    calibration,          \* self.calibration: the content of its Scanner
    prefixScanners,       \* keys of self.scanners["prefixes"]
    suffixScanners,       \* keys of self.scanners["suffixes"]
    \* the last call of scan(path)
    scanPath,             \* its argument (optional string)
    yielded,              \* what getScannerFor(path) yielded, in order
    testers,              \* list(set(...)) of it: the testers scan() applies
    \* engine attributes
    threads,              \* len(self.threads)
    running,              \* self.running
    paused,               \* self.paused
    stopped,              \* self.stopped
    rate,                 \* self.rate
    runningThreadsCount,  \* self.runningThreadsCount
    playEvent,            \* self.playEvent (flag of the Event)
    pausedSemaphore,      \* self.pausedSemaphore (permits)
    matches,              \* self.matches
    dictIndex,            \* cursor of self.dictionary
    \* worker threads
    pc,                   \* position of each worker in thread_proc
    path,                 \* local variable path
    response,             \* local variable response, with the testers' verdicts
    ld,                   \* value loaded by a read-modify-write in progress
    \* Timer threads
    timers,               \* Timer threads started, reduceRate not yet begun
    timerLd,              \* bag of the values loaded by reduceRate calls
    \* the caller
    ctl,                  \* position of the caller
    ctlI,                 \* index of the thread a pause()/wait() loop is at
    timeout,              \* argument of the wait() in progress
    waitRet,              \* result of the last wait() that returned
    nPause,               \* pause() calls made
    nWait,                \* wait() calls made
    nStart,               \* start() calls made
    probesAtStop,         \* probes started when stop() was called, or None
    \* observation of the external collaborators
    probes,               \* probes[p]: calls of requester.request(p)
    resp,                 \* resp[p]: how requester.request(p) ended
    onMatch,              \* results passed to the match callbacks
    onNotFound,           \* results passed to the not-found callbacks
    onError               \* paths passed to the error callbacks

poolVars == <<threadsArg, dictLen, maxrate, threadsCount>>
regVars == <<prefixes, suffixes, extensions, excludeContent, calibration,
             prefixScanners, suffixScanners>>
scanVars == <<scanPath, yielded, testers>>
cfgVars == <<poolVars, regVars, scanVars>>
engVars == <<threads, running, paused, stopped, rate, runningThreadsCount,
             playEvent, pausedSemaphore, matches, dictIndex>>
wrkVars == <<pc, path, response, ld>>
tmrVars == <<timers, timerLd>>
ctlVars == <<ctl, ctlI, timeout, waitRet, nPause, nWait, nStart,
             probesAtStop>>
obsVars == <<probes, resp, onMatch, onNotFound, onError>>
vars == <<cfgVars, engVars, wrkVars, tmrVars, ctlVars, obsVars>>

\* ------------------------------------------------------------- __init__
\* the thread count taken as requested, without the clamp
ThreadsCountUnclamped(t, n) == t

\* self.threadsCount (lines 50-52)
ThreadsCount(t, n) == IF n >= t THEN t ELSE n

\* The state after Fuzzer(...) with arguments from T, N and R (lines 43-66).
\* The attributes that only start() creates (rate, playEvent, ...) do not
\* exist yet; they stand at 0 / FALSE until Start sets them.
InitEngine(T, N, R) ==
    /\ threadsArg \in T
    /\ dictLen \in N
    /\ maxrate \in R
    /\ threadsCount = ThreadsCount(threadsArg, dictLen)
    /\ threads = 0
    /\ running = FALSE
    /\ paused = FALSE
    /\ stopped = 0
    /\ rate = 0
    /\ runningThreadsCount = 0
    /\ playEvent = FALSE
    /\ pausedSemaphore = 0
    /\ matches = <<>>
    /\ dictIndex = 0
    /\ pc = [w \in Workers |-> "idle"]
    /\ path = [w \in Workers |-> 0]
    /\ response = [w \in Workers |-> <<>>]
    /\ ld = [w \in Workers |-> 0]
    /\ timers = 0
    /\ timerLd = EmptyBag
    /\ ctl = "init"
    /\ ctlI = 0
    /\ timeout = None
    /\ waitRet = "none"
    /\ nPause = 0
    /\ nWait = 0
    /\ nStart = 0
    /\ probesAtStop = None
    /\ probes = [p \in Paths |-> 0]
    /\ resp = [p \in Paths |-> "none"]
    /\ onMatch = {}
    /\ onNotFound = {}
    /\ onError = [p \in Paths |-> 0]

\* The classifier arguments of Fuzzer(...), from P, S, E and X (lines 45-47,
\* 57-58 and 63-66): no Scanner exists before start().
InitScanners(P, S, E, X) ==
    /\ prefixes \in P
    /\ suffixes \in S
    /\ extensions \in E
    /\ excludeContent \in X
    /\ calibration = NoString
    /\ prefixScanners = {}
    /\ suffixScanners = {}
    /\ scanPath = NoString
    /\ yielded = <<>>
    /\ testers = <<>>

\* The defaults suffixes=None, prefixes=None, excludeContent=None, and a
\* dictionary without extensions.
InitWith(T, N, R) ==
    /\ InitEngine(T, N, R)
    /\ InitScanners({<<>>}, {<<>>}, {<<>>}, {NoString})

Init == InitWith(1..MaxThreads, 0..MaxPaths, 0..MaxRate)

\* thread.is_alive(): started and thread_proc has not returned
IsAlive(w) == pc[w] \notin {"idle", "done"}

\* ------------------------------------------------------ strings and lists
\* s.startswith(p) and s.endswith(p)
StartsWith(s, p) == Len(p) <= Len(s) /\ SubSeq(s, 1, Len(p)) = p
EndsWith(s, p) ==
    Len(p) <= Len(s) /\ SubSeq(s, Len(s) - Len(p) + 1, Len(s)) = p

\* s.split(c)[0]: the part of s before the first c
RECURSIVE SplitFirst(_, _)
SplitFirst(s, c) ==
    IF s = <<>> \/ Head(s) = c
    THEN <<>>
    ELSE <<Head(s)>> \o SplitFirst(Tail(s), c)

\* the elements of a list
Range(q) == {q[i] : i \in DOMAIN q}

\* the truth value Python gives an optional string: None and "" are false
TruthyStr(x) == x # NoString /\ x[1] # <<>>

\* ------------------------------------------------------- setupScanners()
\* line 107: self.excludeContent[1:] when it starts with "/"
StripSlash(c) == IF StartsWith(c, <<"/">>) THEN Tail(c) ELSE c

\* lines 77-108: the registry is emptied and built again, one Scanner per key;
\* "." and "/" are appended to the caller's lists on every call
SetupScanners ==
    /\ prefixes' = Append(prefixes, <<".">>)
    /\ suffixes' = Append(suffixes, <<"/">>)
    /\ prefixScanners' = Range(prefixes')
    /\ suffixScanners' =
         Range(suffixes') \cup {<<".">> \o extensions[i] : i \in DOMAIN extensions}
    /\ IF TruthyStr(excludeContent)
       THEN /\ excludeContent' = <<StripSlash(excludeContent[1])>>
            /\ calibration' = <<StripSlash(excludeContent[1])>>
       ELSE UNCHANGED <<excludeContent, calibration>>
    /\ UNCHANGED extensions

\* ------------------------------------------------------------- start()
\* lines 140-154: setupScanners, setupThreads (new Thread objects, not yet
\* started), the resets, and a new Event and Semaphore.  self.stopped and
\* self.matches are assigned in __init__ only, and the Timer threads of an
\* earlier run are not cancelled: they run on while start() does.
StartCall ==
    /\ SetupScanners
    /\ threads' = threadsCount
    /\ rate' = 0
    /\ dictIndex' = 0
    /\ runningThreadsCount' = threadsCount
    /\ running' = TRUE
    /\ paused' = FALSE
    /\ playEvent' = FALSE
    /\ pausedSemaphore' = 0
    /\ pc' = [w \in Workers |-> "idle"]
    /\ probesAtStop' = None
    /\ ctl' = "starting"
    /\ UNCHANGED <<poolVars, scanVars, stopped, matches, path, response, ld,
                   tmrVars, ctlI, timeout, waitRet, nPause, nWait, nStart,
                   obsVars>>

\* the first start() on the engine
Start ==
    /\ ctl = "init"
    /\ StartCall

\* start() called again on the same engine, once every worker thread of the
\* run before has ended
Restart ==
    /\ ctl = "run"
    /\ nStart < MaxStarts
    /\ \A w \in Workers : ~IsAlive(w)
    /\ StartCall

\* lines 156-159: thread.start() for every thread, and play(); start()
\* returns.  A started worker blocks on playEvent until play(), the last
\* statement, so the two are one step.
StartThreads ==
    /\ ctl = "starting"
    /\ pc' = [w \in Workers |-> IF w <= threads THEN "start" ELSE "idle"]
    /\ playEvent' = TRUE
    /\ nStart' = nStart + 1
    /\ ctl' = "run"
    /\ UNCHANGED <<cfgVars, threads, running, paused, stopped, rate,
                   runningThreadsCount, pausedSemaphore, matches, dictIndex,
                   path, response, ld, tmrVars, ctlI, timeout, waitRet, nPause,
                   nWait, probesAtStop, obsVars>>

\* ------------------------------------------------- getScannerFor / scan
\* line 121: path.split("?")[0].split("#")[0]
CleanPath(p) == SplitFirst(SplitFirst(p, "?"), "#")

\* A Scanner instance is named by its kind and its key in the registry.
DefaultScanner == <<"default", <<>>>>

\* lines 119-138: the Scanners getScannerFor(p) yields, in the order it
\* yields them
GetScannerFor(p) ==
    LET clean == CleanPath(p)
        pre == SelectSeq(prefixes, LAMBDA x : StartsWith(clean, x))
        suf == SelectSeq(suffixes, LAMBDA x : EndsWith(clean, x))
        ext == SelectSeq(extensions, LAMBDA x : EndsWith(clean, <<".">> \o x))
    IN (IF TruthyStr(excludeContent)
        THEN << <<"calibration", calibration[1]>> >>
        ELSE <<>>)
       \o [i \in 1..Len(pre) |-> <<"prefix", pre[i]>>]
       \o [i \in 1..Len(suf) |-> <<"suffix", suf[i]>>]
       \o [i \in 1..Len(ext) |-> <<"suffix", <<".">> \o ext[i]>>]
       \o <<DefaultScanner>>

\* line 184: list(set(q)) holds each element of q once, in the order the set
\* iterates, which depends on the addresses of the Scanner objects: any order
ListsOfSet(q) ==
    {t \in [1..Cardinality(Range(q)) -> Range(q)] :
        \A i, j \in DOMAIN t : t[i] = t[j] => i = j}

\* the path strings scan() is called with: non-empty, of at most MaxLen
\* characters
PathStrings == UNION {[1..n -> Chars] : n \in 1..MaxLen}

\* line 184: scan(p) collects the testers it will apply to the response of p.
\* The testers are a function of the registry and of p alone, so one call on
\* an engine is followed.
ScanTesters ==
    /\ ctl = "run"
    /\ scanPath = NoString
    /\ \E p \in PathStrings :
         /\ scanPath' = <<p>>
         /\ yielded' = GetScannerFor(p)
         /\ testers' \in ListsOfSet(GetScannerFor(p))
    /\ UNCHANGED <<poolVars, regVars, engVars, wrkVars, tmrVars, ctlVars,
                   obsVars>>

\* ------------------------------------------------------------ thread_proc
\* line 211: self.playEvent.wait()
WaitPlay(w) ==
    /\ pc[w] = "start"
    /\ playEvent
    /\ pc' = [pc EXCEPT ![w] = "first"]
    /\ UNCHANGED <<cfgVars, engVars, path, response, ld, tmrVars, ctlVars,
                   obsVars>>

\* next(self.dictionary): the next candidate, or StopIteration (0)
DictNext(i, n) == IF i < n THEN i + 1 ELSE 0

\* line 214: path = next(self.dictionary); StopIteration leaves the loop
NextFirst(w) ==
    /\ pc[w] = "first"
    /\ IF DictNext(dictIndex, dictLen) # 0
       THEN /\ path' = [path EXCEPT ![w] = DictNext(dictIndex, dictLen)]
            /\ dictIndex' = dictIndex + 1
            /\ pc' = [pc EXCEPT ![w] = "loop"]
       ELSE /\ pc' = [pc EXCEPT ![w] = "exit"]
            /\ UNCHANGED <<path, dictIndex>>
    /\ UNCHANGED <<cfgVars, threads, running, paused, stopped, rate,
                   runningThreadsCount, playEvent, pausedSemaphore, matches,
                   response, ld, tmrVars, ctlVars, obsVars>>

\* line 219: while self.maxrate and self.rate > self.maxrate: pass
Throttled(r, cap) == cap # 0 /\ r > cap

\* lines 216-220: the worker leaves the busy-wait when the test is false
Throttle(w) ==
    /\ pc[w] = "loop"
    /\ ~Throttled(rate, maxrate)
    /\ pc' = [pc EXCEPT ![w] = "rate_rd"]
    /\ UNCHANGED <<cfgVars, engVars, path, response, ld, tmrVars, ctlVars,
                   obsVars>>

\* line 221, the read of self.rate += 1
RateLoad(w) ==
    /\ pc[w] = "rate_rd"
    /\ ld' = [ld EXCEPT ![w] = rate]
    /\ pc' = [pc EXCEPT ![w] = "rate_wr"]
    /\ UNCHANGED <<cfgVars, engVars, path, response, tmrVars, ctlVars,
                   obsVars>>

\* line 221, the write of self.rate += 1; line 222 starts the Timer; line 224
\* calls self.scan(path), which issues requester.request(path) (line 181)
RateStore(w) ==
    /\ pc[w] = "rate_wr"
    /\ rate' = ld[w] + 1
    /\ timers' = timers + 1
    /\ probes' = [probes EXCEPT ![path[w]] = @ + 1]
    /\ pc' = [pc EXCEPT ![w] = "scan"]
    /\ ld' = [ld EXCEPT ![w] = 0]
    /\ UNCHANGED <<cfgVars, threads, running, paused, stopped,
                   runningThreadsCount, playEvent, pausedSemaphore, matches,
                   dictIndex, path, response, timerLd, ctlVars, resp, onMatch,
                   onNotFound, onError>>

\* lines 181-182: requester.request(path) returns a response; the verdict
\* each tester will give on (path, response) comes with it
ScanResponse(w) ==
    /\ pc[w] = "scan"
    /\ \E s \in Statuses, rej \in SUBSET Testers :
         response' = [response EXCEPT ![w] = <<s, rej>>]
    /\ resp' = [resp EXCEPT ![path[w]] = "response"]
    /\ pc' = [pc EXCEPT ![w] = "classify"]
    /\ UNCHANGED <<cfgVars, engVars, path, ld, tmrVars, ctlVars, probes,
                   onMatch, onNotFound, onError>>

\* lines 182-189: result = response.status, and None as soon as one of the
\* applicable testers rejects
ScanResult(status, rejecting) == IF rejecting # {} THEN None ELSE status

\* line 227: if status (None and an empty status are falsy)
Truthy(status) == status # None /\ status # 0

\* the Result stored in place of the list: matches = [result]
ClassifyOverwrites(w) ==
    /\ pc[w] = "classify"
    /\ LET status == ScanResult(response[w][1], response[w][2])
           result == <<path[w], status>>
       IN IF Truthy(status)
          THEN /\ matches' = <<result>>
               /\ pc' = [pc EXCEPT ![w] = "matched"]
               /\ UNCHANGED <<onNotFound, response>>
          ELSE /\ onNotFound' = onNotFound \cup {result}
               /\ response' = [response EXCEPT ![w] = <<>>]
               /\ pc' = [pc EXCEPT ![w] = "finally"]
               /\ UNCHANGED matches
    /\ UNCHANGED <<cfgVars, threads, running, paused, stopped, rate,
                   runningThreadsCount, playEvent, pausedSemaphore, dictIndex,
                   path, ld, tmrVars, ctlVars, probes, resp, onMatch, onError>>

\* lines 224-228 and 231-233: scan() folds the testers; a Result with a status
\* is appended to matches (line 228), and any other goes to the not-found
\* callbacks
Classify(w) ==
    /\ pc[w] = "classify"
    /\ LET status == ScanResult(response[w][1], response[w][2])
           result == <<path[w], status>>
       IN IF Truthy(status)
          THEN /\ matches' = Append(matches, result)
               /\ pc' = [pc EXCEPT ![w] = "matched"]
               /\ UNCHANGED <<onNotFound, response>>
          ELSE /\ onNotFound' = onNotFound \cup {result}
               /\ response' = [response EXCEPT ![w] = <<>>]
               /\ pc' = [pc EXCEPT ![w] = "finally"]
               /\ UNCHANGED matches
    /\ UNCHANGED <<cfgVars, threads, running, paused, stopped, rate,
                   runningThreadsCount, playEvent, pausedSemaphore, dictIndex,
                   path, ld, tmrVars, ctlVars, probes, resp, onMatch, onError>>

\* lines 229-230: the match callbacks get the Result that line 228 appended
MatchCallbacks(w) ==
    /\ pc[w] = "matched"
    /\ onMatch' = onMatch \cup
         {<<path[w], ScanResult(response[w][1], response[w][2])>>}
    /\ response' = [response EXCEPT ![w] = <<>>]
    /\ pc' = [pc EXCEPT ![w] = "finally"]
    /\ UNCHANGED <<cfgVars, engVars, path, ld, tmrVars, ctlVars, probes, resp,
                   onNotFound, onError>>

\* a failed probe retried: the worker goes back to the loop with the same path
ScanFailRetry(w) ==
    /\ pc[w] = "scan"
    /\ resp' = [resp EXCEPT ![path[w]] = "error"]
    /\ onError' = [onError EXCEPT ![path[w]] = @ + 1]
    /\ pc' = [pc EXCEPT ![w] = "loop"]
    /\ UNCHANGED <<cfgVars, engVars, path, response, ld, tmrVars, ctlVars,
                   probes, onMatch, onNotFound>>

\* lines 181 and 235-239: requester.request raised RequestException; the
\* error callbacks get (path, message), then continue, through the finally
\* block
ScanFail(w) ==
    /\ pc[w] = "scan"
    /\ resp' = [resp EXCEPT ![path[w]] = "error"]
    /\ onError' = [onError EXCEPT ![path[w]] = @ + 1]
    /\ pc' = [pc EXCEPT ![w] = "finally"]
    /\ UNCHANGED <<cfgVars, engVars, path, response, ld, tmrVars, ctlVars,
                   probes, onMatch, onNotFound>>

\* line 242: if not self.playEvent.isSet(); line 243 then reads self.stopped
FinallyCheck(w) ==
    /\ pc[w] = "finally"
    /\ IF ~playEvent
       THEN /\ ld' = [ld EXCEPT ![w] = stopped]
            /\ pc' = [pc EXCEPT ![w] = "rendezvous"]
       ELSE /\ pc' = [pc EXCEPT ![w] = "next"]
            /\ UNCHANGED ld
    /\ UNCHANGED <<cfgVars, engVars, path, response, tmrVars, ctlVars,
                   obsVars>>

\* line 243, the write of self.stopped += 1; line 244: release()
Rendezvous(w) ==
    /\ pc[w] = "rendezvous"
    /\ stopped' = ld[w] + 1
    /\ pausedSemaphore' = pausedSemaphore + 1
    /\ pc' = [pc EXCEPT ![w] = "gate"]
    /\ ld' = [ld EXCEPT ![w] = 0]
    /\ UNCHANGED <<cfgVars, threads, running, paused, rate,
                   runningThreadsCount, playEvent, matches, dictIndex, path,
                   response, tmrVars, ctlVars, obsVars>>

\* line 245: self.playEvent.wait() returns at once when the flag is set;
\* otherwise the thread blocks in it until a set() wakes it
GateWait(w) ==
    /\ pc[w] = "gate"
    /\ pc' = [pc EXCEPT ![w] = IF playEvent THEN "next" ELSE "blocked"]
    /\ UNCHANGED <<cfgVars, engVars, path, response, ld, tmrVars, ctlVars,
                   obsVars>>

\* line 247: path = next(self.dictionary); StopIteration goes to line 254
NextPath(w) ==
    /\ pc[w] = "next"
    /\ IF DictNext(dictIndex, dictLen) # 0
       THEN /\ path' = [path EXCEPT ![w] = DictNext(dictIndex, dictLen)]
            /\ dictIndex' = dictIndex + 1
            /\ pc' = [pc EXCEPT ![w] = "chk"]
       ELSE /\ pc' = [pc EXCEPT ![w] = "exit"]
            /\ UNCHANGED <<path, dictIndex>>
    /\ UNCHANGED <<cfgVars, threads, running, paused, stopped, rate,
                   runningThreadsCount, playEvent, pausedSemaphore, matches,
                   response, ld, tmrVars, ctlVars, obsVars>>

\* the test of line 249 inverted: break while running is set
CheckRunningInverted(w) ==
    /\ pc[w] = "chk"
    /\ pc' = [pc EXCEPT ![w] = IF running THEN "exit" ELSE "loop"]
    /\ UNCHANGED <<cfgVars, engVars, path, response, ld, tmrVars, ctlVars,
                   obsVars>>

\* the test of line 249 left out: the worker sleeps and loops
CheckRunningIgnored(w) ==
    /\ pc[w] = "chk"
    /\ pc' = [pc EXCEPT ![w] = "loop"]
    /\ UNCHANGED <<cfgVars, engVars, path, response, ld, tmrVars, ctlVars,
                   obsVars>>

\* lines 249-252: break when running is cleared, else sleep(delay) and loop
CheckRunning(w) ==
    /\ pc[w] = "chk"
    /\ pc' = [pc EXCEPT ![w] = IF ~running THEN "exit" ELSE "loop"]
    /\ UNCHANGED <<cfgVars, engVars, path, response, ld, tmrVars, ctlVars,
                   obsVars>>

\* lines 257-258 and 205, the read of self.runningThreadsCount -= 1
StopThreadLoad(w) ==
    /\ pc[w] = "exit"
    /\ ld' = [ld EXCEPT ![w] = runningThreadsCount]
    /\ pc' = [pc EXCEPT ![w] = "exit_wr"]
    /\ UNCHANGED <<cfgVars, engVars, path, response, tmrVars, ctlVars,
                   obsVars>>

\* line 205, the write of self.runningThreadsCount -= 1; the thread ends,
\* and its local variables with it
StopThreadStore(w) ==
    /\ pc[w] = "exit_wr"
    /\ runningThreadsCount' = ld[w] - 1
    /\ pc' = [pc EXCEPT ![w] = "done"]
    /\ path' = [path EXCEPT ![w] = 0]
    /\ ld' = [ld EXCEPT ![w] = 0]
    /\ UNCHANGED <<cfgVars, threads, running, paused, stopped, rate,
                   playEvent, pausedSemaphore, matches, dictIndex, response,
                   tmrVars, ctlVars, obsVars>>

\* ----------------------------------------------------------- reduceRate
\* line 208, the read of self.rate -= 1, in a Timer thread whose second is over
TimerLoad ==
    /\ timers > 0
    /\ timers' = timers - 1
    /\ timerLd' = timerLd (+) SetToBag({rate})
    /\ UNCHANGED <<cfgVars, engVars, wrkVars, ctlVars, obsVars>>

\* line 208, the write of self.rate -= 1
TimerStore ==
    /\ \E v \in BagToSet(timerLd) :
         /\ rate' = v - 1
         /\ timerLd' = timerLd (-) SetToBag({v})
    /\ UNCHANGED <<cfgVars, threads, running, paused, stopped,
                   runningThreadsCount, playEvent, pausedSemaphore, matches,
                   dictIndex, wrkVars, timers, ctlVars, obsVars>>

\* ----------------------------------------------------------------- play()
\* a set() that wakes one of the blocked threads only
PlayOne(f) ==
    [w \in Workers |->
        IF f[w] = "blocked" /\ \A v \in 1..(w - 1) : f[v] # "blocked"
        THEN "next"
        ELSE f[w]]

\* line 162: self.playEvent.set() wakes every thread blocked in
\* playEvent.wait(); a woken thread returns from wait() whatever happens to the
\* flag afterwards
Play(f) == [w \in Workers |-> IF f[w] = "blocked" THEN "next" ELSE f[w]]

\* requester.request calls made so far, over the candidates 1..n
RECURSIVE ProbeCount(_, _)
ProbeCount(f, n) == IF n = 0 THEN 0 ELSE f[n] + ProbeCount(f, n - 1)

\* ---------------------------------------------------------------- pause()
\* The caller is one thread, so a control call begins only when the one
\* before has returned (ctl = "run"), and it follows the lifecycle
\* Running <-> Paused -> Stopped: pause() while running and not paused,
\* resume() while paused, stop() once, and neither pause() nor resume() once
\* running is cleared (by stop() or by finishThreads()).
\*
\* line 165: self.paused = True
Pause ==
    /\ ctl = "run"
    /\ running /\ ~paused
    /\ nPause < MaxPauses
    /\ nPause' = nPause + 1
    /\ paused' = TRUE
    /\ ctl' = "pause_clear"
    /\ UNCHANGED <<cfgVars, threads, running, stopped, rate,
                   runningThreadsCount, playEvent, pausedSemaphore, matches,
                   dictIndex, wrkVars, tmrVars, ctlI, timeout, waitRet, nWait,
                   nStart, probesAtStop, obsVars>>

\* line 166: self.playEvent.clear()
PauseClear ==
    /\ ctl = "pause_clear"
    /\ playEvent' = FALSE
    /\ ctl' = "pause"
    /\ ctlI' = 1
    /\ UNCHANGED <<cfgVars, threads, running, paused, stopped, rate,
                   runningThreadsCount, pausedSemaphore, matches, dictIndex,
                   wrkVars, tmrVars, timeout, waitRet, nPause, nWait, nStart,
                   probesAtStop, obsVars>>

\* lines 167-168: for thread in self.threads: if thread.is_alive()
PauseCheck ==
    /\ ctl = "pause"
    /\ IF ctlI > threads
       THEN /\ ctl' = "run"
            /\ ctlI' = 0
       ELSE IF IsAlive(ctlI)
            THEN /\ ctl' = "acquire"
                 /\ UNCHANGED ctlI
            ELSE /\ ctlI' = ctlI + 1
                 /\ UNCHANGED ctl
    /\ UNCHANGED <<cfgVars, engVars, wrkVars, tmrVars, timeout, waitRet,
                   nPause, nWait, nStart, probesAtStop, obsVars>>

\* line 169: self.pausedSemaphore.acquire()
PauseAcquire ==
    /\ ctl = "acquire"
    /\ pausedSemaphore > 0
    /\ pausedSemaphore' = pausedSemaphore - 1
    /\ ctl' = "pause"
    /\ ctlI' = ctlI + 1
    /\ UNCHANGED <<cfgVars, threads, running, paused, stopped, rate,
                   runningThreadsCount, playEvent, matches, dictIndex,
                   wrkVars, tmrVars, timeout, waitRet, nPause, nWait, nStart,
                   probesAtStop, obsVars>>

\* ----------------------------------------------------------------- play()
\* lines 161-162, called by the caller itself: the gate is opened and every
\* worker blocked on it wakes; paused, running and the semaphore stay
PlayCall ==
    /\ ctl = "run"
    /\ playEvent' = TRUE
    /\ pc' = Play(pc)
    /\ UNCHANGED <<cfgVars, threads, running, paused, stopped, rate,
                   runningThreadsCount, pausedSemaphore, matches, dictIndex,
                   path, response, ld, tmrVars, ctlVars, obsVars>>

\* --------------------------------------------------------------- resume()
\* line 172: self.paused = False
Resume ==
    /\ ctl = "run"
    /\ running /\ paused
    /\ paused' = FALSE
    /\ ctl' = "resume_release"
    /\ UNCHANGED <<cfgVars, threads, running, stopped, rate,
                   runningThreadsCount, playEvent, pausedSemaphore, matches,
                   dictIndex, wrkVars, tmrVars, ctlI, timeout, waitRet, nPause,
                   nWait, nStart, probesAtStop, obsVars>>

\* line 173: self.pausedSemaphore.release()
ResumeRelease ==
    /\ ctl = "resume_release"
    /\ pausedSemaphore' = pausedSemaphore + 1
    /\ ctl' = "resume_play"
    /\ UNCHANGED <<cfgVars, threads, running, paused, stopped, rate,
                   runningThreadsCount, playEvent, matches, dictIndex,
                   wrkVars, tmrVars, ctlI, timeout, waitRet, nPause, nWait,
                   nStart, probesAtStop, obsVars>>

\* line 174: self.play()
ResumePlay ==
    /\ ctl = "resume_play"
    /\ playEvent' = TRUE
    /\ pc' = Play(pc)
    /\ ctl' = "run"
    /\ UNCHANGED <<cfgVars, threads, running, paused, stopped, rate,
                   runningThreadsCount, pausedSemaphore, matches, dictIndex,
                   path, response, ld, tmrVars, ctlI, timeout, waitRet, nPause,
                   nWait, nStart, probesAtStop, obsVars>>

\* ----------------------------------------------------------------- stop()
\* line 177: self.running = False.  The caller stops a run once.
Stop ==
    /\ ctl = "run"
    /\ probesAtStop = None
    /\ running' = FALSE
    /\ probesAtStop' = ProbeCount(probes, MaxDict)
    /\ ctl' = "stop_play"
    /\ UNCHANGED <<cfgVars, threads, paused, stopped, rate,
                   runningThreadsCount, playEvent, pausedSemaphore, matches,
                   dictIndex, wrkVars, tmrVars, ctlI, timeout, waitRet, nPause,
                   nWait, nStart, obsVars>>

\* stop() without its play(): it returns and leaves the gate as it is
StopKeepsGate ==
    /\ ctl = "stop_play"
    /\ ctl' = "run"
    /\ UNCHANGED <<cfgVars, engVars, wrkVars, tmrVars, ctlI, timeout, waitRet,
                   nPause, nWait, nStart, probesAtStop, obsVars>>

\* line 178: self.play()
StopPlay ==
    /\ ctl = "stop_play"
    /\ playEvent' = TRUE
    /\ pc' = Play(pc)
    /\ ctl' = "run"
    /\ UNCHANGED <<cfgVars, threads, running, paused, stopped, rate,
                   runningThreadsCount, pausedSemaphore, matches, dictIndex,
                   path, response, ld, tmrVars, ctlI, timeout, waitRet, nPause,
                   nWait, nStart, probesAtStop, obsVars>>

\* -------------------------------------------------------- finishThreads()
\* lines 198-199: running = False; then self.finishedEvent.set() raises
\* AttributeError, as no statement creates finishedEvent: the play gate is
\* left as it is
FinishThreads ==
    /\ ctl = "run"
    /\ running
    /\ running' = FALSE
    /\ UNCHANGED <<cfgVars, threads, paused, stopped, rate,
                   runningThreadsCount, playEvent, pausedSemaphore, matches,
                   dictIndex, wrkVars, tmrVars, ctlVars, obsVars>>

\* ----------------------------------------------------------------- wait()
\* line 68: wait(timeout) is called
WaitCall ==
    /\ ctl = "run"
    /\ nWait < MaxWaits
    /\ nWait' = nWait + 1
    /\ \E t \in Timeouts : timeout' = t
    /\ ctl' = "wait"
    /\ ctlI' = 1
    /\ waitRet' = "none"
    /\ UNCHANGED <<cfgVars, engVars, wrkVars, tmrVars, nPause, nStart,
                   probesAtStop, obsVars>>

\* line 72: if timeout and thread.is_alive()
WaitGivesUp(t, alive) == t # None /\ t # 0 /\ alive

\* lines 69-75: thread.join(timeout) returns when the thread has ended or
\* the timeout is over (never, without a timeout); then the test of line 72
WaitJoin ==
    /\ ctl = "wait"
    /\ IF ctlI > threads
       THEN /\ waitRet' = "True"
            /\ ctl' = "run"
            /\ ctlI' = 0
       ELSE /\ timeout = None => ~IsAlive(ctlI)
            /\ IF WaitGivesUp(timeout, IsAlive(ctlI))
               THEN /\ waitRet' = "False"
                    /\ ctl' = "run"
                    /\ ctlI' = 0
               ELSE /\ ctlI' = ctlI + 1
                    /\ UNCHANGED <<ctl, waitRet>>
    /\ UNCHANGED <<cfgVars, engVars, wrkVars, tmrVars, timeout, nPause,
                   nWait, nStart, probesAtStop, obsVars>>

\* ------------------------------------------------------------------- Next
Worker(w) ==
    \/ WaitPlay(w)
    \/ NextFirst(w)
    \/ Throttle(w)
    \/ RateLoad(w)
    \/ RateStore(w)
    \/ ScanResponse(w)
    \/ Classify(w)
    \/ MatchCallbacks(w)
    \/ ScanFail(w)
    \/ FinallyCheck(w)
    \/ Rendezvous(w)
    \/ GateWait(w)
    \/ NextPath(w)
    \/ CheckRunning(w)
    \/ StopThreadLoad(w)
    \/ StopThreadStore(w)

Next ==
    \/ Start
    \/ StartThreads
    \/ Restart
    \/ ScanTesters
    \/ \E w \in Workers : Worker(w)
    \/ TimerLoad
    \/ TimerStore
    \/ Pause
    \/ PauseClear
    \/ PauseCheck
    \/ PauseAcquire
    \/ PlayCall
    \/ Resume
    \/ ResumeRelease
    \/ ResumePlay
    \/ Stop
    \/ StopPlay
    \/ FinishThreads
    \/ WaitCall
    \/ WaitJoin

Spec == Init /\ [][Next]_vars

\* The run under the caller's pause / resume / stop, with no rate cap (the
\* default, maxrate = 0).
NextCtl ==
    \/ Start
    \/ StartThreads
    \/ \E w \in Workers : Worker(w)
    \/ TimerLoad
    \/ TimerStore
    \/ Pause
    \/ PauseClear
    \/ PauseCheck
    \/ PauseAcquire
    \/ PlayCall
    \/ Resume
    \/ ResumeRelease
    \/ ResumePlay
    \/ Stop
    \/ StopPlay
    \/ FinishThreads

SpecCtl == InitWith(1..MaxThreads, 0..MaxPaths, {0}) /\ [][NextCtl]_vars

\* The same run under a rate cap.
NextRate ==
    \/ Start
    \/ StartThreads
    \/ \E w \in Workers : Worker(w)
    \/ TimerLoad
    \/ TimerStore
    \/ Pause
    \/ PauseClear
    \/ PauseCheck
    \/ PauseAcquire
    \/ PlayCall
    \/ Resume
    \/ ResumeRelease
    \/ ResumePlay
    \/ Stop
    \/ StopPlay
    \/ FinishThreads

SpecRate ==
    InitWith(1..MaxThreads, 0..MaxPaths, 1..MaxRate) /\ [][NextRate]_vars

\* A worker of a run that is never paused: the play gate stays open, so no
\* worker reaches lines 243-245.
WorkerUnpaused(w) ==
    \/ WaitPlay(w)
    \/ NextFirst(w)
    \/ Throttle(w)
    \/ RateLoad(w)
    \/ RateStore(w)
    \/ ScanResponse(w)
    \/ Classify(w)
    \/ MatchCallbacks(w)
    \/ ScanFail(w)
    \/ FinallyCheck(w)
    \/ NextPath(w)
    \/ CheckRunning(w)
    \/ StopThreadLoad(w)
    \/ StopThreadStore(w)

\* The run, with no rate cap, under a caller that waits for it and may end
\* it, and does not pause it.
NextWait ==
    \/ Start
    \/ StartThreads
    \/ \E w \in Workers : WorkerUnpaused(w)
    \/ TimerLoad
    \/ TimerStore
    \/ Stop
    \/ StopPlay
    \/ FinishThreads
    \/ WaitCall
    \/ WaitJoin

SpecWait == InitWith(1..MaxThreads, 0..MaxPaths, {0}) /\ [][NextWait]_vars

\* A run under a rate cap that the caller starts and then leaves alone, with
\* MaxThreads workers over MaxDict candidates.
NextThrottle ==
    \/ Start
    \/ StartThreads
    \/ \E w \in Workers : WorkerUnpaused(w)
    \/ TimerLoad
    \/ TimerStore

SpecThrottle ==
    InitWith({MaxThreads}, {MaxDict}, 1..MaxRate) /\ [][NextThrottle]_vars

\* The engine started again after a run has ended, with no rate cap: one
\* worker, and a caller that pauses the first run once, resumes it and lets
\* every run end by itself.  The Timer threads of the first run go on
\* through the second start().
PauseFirstRun ==
    /\ nStart = 1
    /\ nPause = 0
    /\ Pause

NextRestart ==
    \/ Start
    \/ StartThreads
    \/ Restart
    \/ \E w \in Workers : Worker(w)
    \/ TimerLoad
    \/ TimerStore
    \/ PauseFirstRun
    \/ PauseClear
    \/ PauseCheck
    \/ PauseAcquire
    \/ Resume
    \/ ResumeRelease
    \/ ResumePlay

SpecRestart == InitWith({1}, 1..MaxPaths, {0}) /\ [][NextRestart]_vars

\* The classifier selection: engines built with these prefix, suffix and
\* calibration arguments over a dictionary with these extensions, started
\* (and started again), and scan() called with every path string.  The
\* dictionary is empty, so that no worker thread runs.
PrefixArgs == {<<>>, << <<"a">> >>, << <<"/">>, <<"a">>, <<"a">> >>}
SuffixArgs == {<<>>, << <<".", "a">> >>, << <<"a">>, <<"/">> >>}
ExtensionArgs == {<<>>, << <<"a">> >>}
ExcludeArgs == {NoString, << <<"/">> >>, << <<"a">> >>, << <<"/", "a">> >>}

NextSel ==
    \/ Start
    \/ StartThreads
    \/ Restart
    \/ ScanTesters

SpecSel ==
    /\ InitEngine({1}, {0}, {0})
    /\ InitScanners(PrefixArgs, SuffixArgs, ExtensionArgs, ExcludeArgs)
    /\ [][NextSel]_vars

\* ============================================================ properties
Min(a, b) == IF a <= b THEN a ELSE b

\* a start() has returned, and no start() is in progress
Started == ctl \notin {"init", "starting"}
\* stop() has been called in this run
StopCalled == Started /\ probesAtStop # None
\* stop() has returned
StopReturned == StopCalled /\ ctl # "stop_play"
\* a pause() has returned and none of resume(), stop(), finishThreads() and
\* play() was called since
PauseReturned == ctl = "run" /\ paused /\ running /\ ~playEvent
\* every worker thread of the run has ended
AllExited == Started /\ \A w \in 1..threads : pc[w] = "done"
\* the results of S that name path p, and how many they are
ResultsOf(S, p) == {r \in S : r[1] = p}
CountOf(S, p) == Cardinality(ResultsOf(S, p))
\* the entries of matches that name path p
MatchesOf(p) == {i \in 1..Len(matches) : matches[i][1] = p}
\* worker w has left its loop
Exited(w) == pc[w] \in {"exit", "exit_wr", "done"}
\* a worker holds the response of path p and has not finished routing it
Classifying(p) ==
    \E w \in Workers : pc[w] \in {"classify", "matched"} /\ path[w] = p

\* C1: while a pause() has returned and resume() / stop() has not been called,
\* no worker starts a probe and matches does not change.
C1_PausedIsQuiet ==
    [][PauseReturned => probes' = probes /\ matches' = matches]_vars

\* C2: no candidate is probed twice, and when the run has completed without
\* stop() every candidate of the dictionary has been probed exactly once.
C2_ExactlyOnce ==
    /\ \A p \in Paths : probes[p] <= 1
    /\ (AllExited /\ running) => \A p \in 1..dictLen : probes[p] = 1

\* C2 witness: a run of MaxThreads workers over MaxPaths candidates, with a
\* prober failure and a pause that a worker met, has completed without stop().
C2_Witness ==
    /\ AllExited /\ running
    /\ threads = MaxThreads /\ dictLen = MaxPaths
    /\ \E p \in Paths : resp[p] = "error"
    /\ nPause > 0 /\ stopped > 0

\* C3: after stop(), once the workers have ended isFinished() is true.
C3_StopFinishes ==
    (StopCalled /\ AllExited) => runningThreadsCount = 0

\* C4: after stop() has been called no worker starts a new probe.
C4_NoProbeAfterStop ==
    [][StopCalled => probes' = probes]_vars

\* C5: pause() never blocks forever: it is never waiting for a permit while
\* the semaphore is empty and every worker has ended or is blocked on the
\* play gate (line 211 or line 245), which only the blocked caller could open.
C5_PauseReturns ==
    ~ ( /\ ctl = "acquire"
        /\ pausedSemaphore = 0
        /\ ~playEvent
        /\ \A w \in 1..threads : pc[w] \in {"start", "blocked", "done"} )

\* C6: with a rate cap the rate counter never exceeds the cap.
C6_RateWithinCap ==
    maxrate > 0 => rate <= maxrate

\* C7: a probe that returned a response has exactly one outcome.  When every
\* tester accepts and the status is non-empty, the Result is appended to
\* matches and then passed to the match callbacks; otherwise the not-found
\* callbacks get a Result whose status is None and matches is left alone.
C7_Outcome ==
    /\ [](\A p \in Paths :
            (resp[p] = "response" /\ ~Classifying(p))
            => /\ onError[p] = 0
               /\ CountOf(onMatch, p) + CountOf(onNotFound, p) = 1
               /\ Cardinality(MatchesOf(p)) = CountOf(onMatch, p))
    /\ [][\A w \in Workers :
            LET s == response[w][1]
                rejecting == response[w][2]
                p == path[w]
            IN /\ (pc[w] = "classify" /\ pc'[w] # "classify") =>
                    IF rejecting = {} /\ s \notin {None, 0}
                    THEN /\ matches' = Append(matches, <<p, s>>)
                         /\ pc'[w] = "matched"
                         /\ onNotFound' = onNotFound
                    ELSE /\ matches' = matches
                         /\ onMatch' = onMatch
                         /\ pc'[w] = "finally"
                         /\ onNotFound' = onNotFound \cup {<<p, None>>}
               /\ (pc[w] = "matched" /\ pc'[w] # "matched") =>
                    /\ onMatch' = onMatch \cup {<<p, s>>}
                    /\ matches' = matches
                    /\ onNotFound' = onNotFound]_vars

\* C8: a candidate whose probe failed went to the error callbacks once, is in
\* no Result, is not probed again, and the failure ends no worker: a worker
\* leaves its loop only when the dictionary is exhausted or after running
\* was cleared.
C8_ErrorIsLocal ==
    /\ \A p \in Paths :
         /\ probes[p] <= 1
         /\ onError[p] > 0 => resp[p] = "error"
         /\ resp[p] = "error" =>
              /\ onError[p] = 1
              /\ MatchesOf(p) = {}
              /\ ResultsOf(onMatch, p) = {}
              /\ ResultsOf(onNotFound, p) = {}
    /\ \A w \in Workers : Exited(w) => (dictIndex = dictLen \/ ~running)

\* C8 witness: the only worker's probe of candidate 1 failed, and the worker
\* has probed candidate 2 since.
C8_Witness ==
    /\ threads = 1
    /\ resp[1] = "error" /\ onError[1] = 1
    /\ probes[2] = 1 /\ path[1] = 2

\* C9: start() makes min(threads, len(dictionary)) workers and sets the live
\* worker count to that number.
C9_PoolSize ==
    [][(~Started /\ Started') =>
         /\ threads' = Min(threadsArg, dictLen)
         /\ Cardinality({w \in Workers : pc'[w] # "idle"})
              = Min(threadsArg, dictLen)
         /\ runningThreadsCount' = Min(threadsArg, dictLen)]_vars

\* C9 witness: more threads were asked for than there are candidates, and
\* start() has made one worker per candidate.
C9_Witness ==
    /\ Started
    /\ threadsArg > dictLen /\ dictLen > 0
    /\ threads = dictLen

\* C10: wait() returns True only when every worker thread has ended.
C10_WaitTrueAllEnded ==
    waitRet = "True" => \A w \in 1..threads : pc[w] = "done"

\* the path without its query string and its fragment: what stands before the
\* first "?" or "#"
Cleaned(p) ==
    LET n == CHOOSE k \in 0..Len(p) :
                 /\ \A i \in 1..k : p[i] \notin {"?", "#"}
                 /\ k < Len(p) => p[k + 1] \in {"?", "#"}
    IN SubSeq(p, 1, n)
\* the classifiers of the registry that apply to path p
ApplicableScanners(p) ==
    (IF calibration # NoString
     THEN {<<"calibration", calibration[1]>>}
     ELSE {})
    \cup {<<"prefix", k>> : k \in {x \in prefixScanners : StartsWith(Cleaned(p), x)}}
    \cup {<<"suffix", k>> : k \in {x \in suffixScanners : EndsWith(Cleaned(p), x)}}
    \cup {DefaultScanner}
\* no element of the list q occurs twice
NoDuplicate(q) == \A i, j \in DOMAIN q : q[i] = q[j] => i = j

\* C11: the testers scan(path) applies are, each once, the calibration
\* classifier when one was built, the prefix and suffix classifiers whose key
\* is a prefix / suffix of the path without query string and fragment, and
\* the default classifier.
C11_Testers ==
    scanPath # NoString =>
        /\ Range(testers) = ApplicableScanners(scanPath[1])
        /\ NoDuplicate(testers)

\* no increment of the rate counter is in progress and no decrement is
\* pending or in progress
RateSettled ==
    /\ \A w \in Workers : pc[w] # "rate_wr"
    /\ timers = 0
    /\ timerLd = EmptyBag

\* C12: the rate counter is never negative, and it is 0 again once every
\* decrement scheduled by a probe start has fired.
C12_RateBalanced ==
    /\ rate >= 0
    /\ RateSettled => rate = 0

\* C13: the live worker count is the number of worker threads of the run that
\* have not ended, so isFinished() holds exactly when all of them have ended.
C13_LiveCount ==
    Started =>
        runningThreadsCount = Cardinality({w \in 1..threads : pc[w] # "done"})

\* C14: stop() on a paused engine wakes every worker blocked on the play
\* gate (its play(), line 178); no worker is blocked once it has returned,
\* and a woken worker takes its next candidate, sees running cleared and
\* leaves without probing it.  Once a pause() has returned no worker waits at
\* line 211 with its first candidate still to take.
C14_StopWakesPaused ==
    /\ [](StopReturned => playEvent /\ \A w \in Workers : pc[w] # "blocked")
    /\ []((ctl = "run" /\ paused) =>
            \A w \in Workers : pc[w] \notin {"start", "first"})
    /\ [][/\ (~StopReturned /\ StopReturned' /\ paused) =>
               \A w \in Workers : pc[w] = "blocked" => pc'[w] = "next"
          /\ (StopReturned /\ StopReturned') =>
               \A w \in Workers :
                  pc[w] \in {"gate", "next", "chk"} =>
                     pc'[w] \in {"gate", "next", "chk", "exit"}]_vars

\* C14 witness: the only worker was held by a pause() when stop() was called;
\* it has ended, and the candidate it took on waking was not probed.
C14_Witness ==
    /\ StopReturned /\ paused /\ nStart = 1
    /\ threads = 1 /\ stopped = 1
    /\ pc[1] = "done"
    /\ dictLen = MaxPaths /\ dictIndex = 2
    /\ probes[1] = 1 /\ probes[2] = 0

\* resume() is between its first statement and its return
Resuming == ctl \in {"resume_release", "resume_play"}

\* C15: resume() wakes every worker blocked on the play gate (its play(),
\* line 174), whatever pausedSemaphore holds; once it has returned, while the
\* engine is not paused the gate is open and no worker is blocked on it, and
\* a woken worker goes on to its next candidate or leaves.
C15_ResumeWakesAll ==
    /\ []((Started /\ ~paused /\ ~Resuming) =>
            playEvent /\ \A w \in Workers : pc[w] # "blocked")
    /\ [][/\ (Resuming /\ ~Resuming') =>
               /\ playEvent'
               /\ \A w \in Workers : pc[w] = "blocked" => pc'[w] = "next"
          /\ \A w \in Workers :
               (pc[w] = "next" /\ pc'[w] # "next") =>
                   pc'[w] \in {"chk", "exit"}]_vars

\* C15 witness: two workers were blocked on the gate, resume() left a permit
\* in pausedSemaphore, and both workers are past the gate.
C15_Witness ==
    /\ ctl = "run" /\ running /\ ~paused /\ nPause = 1
    /\ threads = 2 /\ stopped = 2
    /\ pausedSemaphore = 1
    /\ \A w \in 1..2 : pc[w] \in {"next", "chk", "loop"}

\* C16: a worker that has started a probe delivers its outcome before it
\* looks at the play gate or at running again, and when pause() has returned
\* no started probe is without its outcome.
C16_OutcomeBeforePause ==
    /\ [](PauseReturned =>
            \A w \in Workers : pc[w] \notin {"scan", "classify", "matched"})
    /\ [][\A w \in Workers :
            pc[w] \in {"scan", "classify", "matched"} =>
                pc'[w] \in {"scan", "classify", "matched", "finally"}]_vars

\* q is an initial part of r
IsPrefix(q, r) == Len(q) <= Len(r) /\ SubSeq(r, 1, Len(q)) = q

\* the Results appended to matches whose match callbacks have not run yet
\* (a worker is between line 228 and line 229)
AwaitingCallbacks ==
    {<<path[w], ScanResult(response[w][1], response[w][2])>> :
        w \in {v \in Workers : pc[v] = "matched"}}

\* C18: matches only grows, by appends; it holds exactly one entry for each
\* Result passed to the match callbacks, every other entry is the Result of
\* a worker about to call them, and every entry has a non-empty status.
C18_MatchesAppendOnly ==
    /\ [](/\ \A r \in onMatch :
               Cardinality({i \in 1..Len(matches) : matches[i] = r}) = 1
          /\ Len(matches) = Cardinality(onMatch \cup AwaitingCallbacks)
          /\ \A i \in 1..Len(matches) :
               /\ matches[i] \in onMatch \cup AwaitingCallbacks
               /\ matches[i][2] \notin {None, 0})
    /\ [][IsPrefix(matches, matches')]_vars

\* C18 witness: two workers had probes in flight together and both Results
\* are in matches, the one of candidate 2 first.
C18_Witness ==
    /\ threads = 2
    /\ Len(matches) = 2 /\ Cardinality(onMatch) = 2
    /\ matches[1][1] = 2 /\ matches[2][1] = 1

\* C20: after stop() a worker goes through the top of its loop at most once
\* more, so at most one probe per worker starts after the call.
C20_OneProbeAfterStop ==
    /\ [](StopCalled => ProbeCount(probes, MaxDict) - probesAtStop <= threads)
    /\ [][(StopCalled /\ StopCalled') =>
            \A w \in Workers :
               pc'[w] = "loop" => pc[w] \in {"first", "loop"}]_vars

\* C20 witness: the only worker probed candidate 1 after stop(), took
\* candidate 2 and ended without probing it.
C20_Witness ==
    /\ ~running /\ nStart = 1
    /\ threads = 1 /\ pc[1] = "done"
    /\ probesAtStop = 0
    /\ dictLen = MaxPaths /\ probes[1] = 1 /\ probes[2] = 0

\* C17: every start() leaves running set, paused cleared, the dictionary
\* cursor at its beginning, the play gate open, the rate counter and stopped
\* at 0, and the live worker count at the pool size.
C17_StartResets ==
    [][(nStart' # nStart) =>
         /\ running' /\ ~paused'
         /\ dictIndex' = 0
         /\ playEvent'
         /\ rate' = 0
         /\ stopped' = 0
         /\ runningThreadsCount' = threadsCount']_vars

\* C19: the rate counter is never left above the cap with no decrement
\* pending, so a worker in the throttle loop is let through once the pending
\* decrements have fired.
C19_ThrottleClears ==
    (maxrate > 0 /\ RateSettled) => ~Throttled(rate, maxrate)
====
